---- MODULE Spec2Model ----
(***************************************************************************)
(* Model of src/main.py: the ProjectileSimulation state machine, the       *)
(* kinematics helpers and the part of main() that launches the simulation  *)
(* and fits the view.                                                      *)
(*                                                                         *)
(* Numbers.  The program computes in floating point; the model computes    *)
(* the same formulas exactly, over integers.  Units are chosen so that     *)
(* every quantity the model meets is an integer: time is counted in ticks  *)
(* and lengths in units of g*tick^2/2, so that the gravity constant        *)
(* (9.81 m/s^2 in the source) has the value 2 and 0.5*g*t*t = t*t.  All    *)
(* formulas of the source are dimensionally consistent, so they are kept   *)
(* verbatim.  Angles are drawn from a table with rational sine and cosine  *)
(* (0 degrees, and the 53.13 degrees of the 3-4-5 triangle), and launch    *)
(* inputs are restricted to those whose discriminant is negative or a      *)
(* perfect square (ExactInputs).                                           *)
(*                                                                         *)
(* Optional values (Python None) are sequences: <<>> is None, <<v>> is v.  *)
(***************************************************************************)
EXTENDS Integers, Sequences, FiniteSets, TLC

\* ---- bounds ----------------------------------------------------------
\* capacity of the trail (self.max_trail_length is 200 in the source; the
\* capacity is scaled so that the trail fills and overflows within MaxTime)
MaxTrail == 3
\* cap on the elapsed time of a run that never reaches its impact
MaxTime == 12
\* samples of the reference trajectory (num_points=300 at the call site)
NumPoints == 2

\* ---- constants -------------------------------------------------------
\* 9.81 m/s^2, which is 2 length units per tick^2 in the units of the model
GRAVITY == 2
WINDOW_WIDTH == 960
WINDOW_HEIGHT == 600
panel_w == 320
margin_left == 40
margin_right == 20
margin_top == 20
margin_bottom == 60

None == <<>>
Some(v) == <<v>>
IsNone(o) == o = <<>>
Val(o) == o[1]

\* ---- input domains ---------------------------------------------------
\* angles of the table, named by their rounded value in degrees
Angles == {0, 53}
TrigDen == 5
\* math.cos(math.radians(a)) * TrigDen
CosNum(a) == CASE a = 0 -> 5 [] a = 53 -> 3
\* math.sin(math.radians(a)) * TrigDen
SinNum(a) == CASE a = 0 -> 0 [] a = 53 -> 4

\* values of the two text inputs (get_value(): None when empty/unparsable)
ViValues == {None, Some(10)}
VfValues == {None, Some(8), Some(14)}
\* frame times handed to update(), and speed multipliers
FrameDts == {1, 2}
SpeedMultipliers == {1, 2}

IsSquare(n) == \E r \in 0..n : r * r = n
\* math.sqrt, on the perfect squares the model is restricted to
Sqrt(n) == CHOOSE r \in 0..n : r * r = n

Min2(a, b) == IF a <= b THEN a ELSE b

\* ---- kinematics solver -----------------------------------------------
compute_delta_y_from_speeds(initial_speed, final_speed, gravity) ==
    (final_speed * final_speed - initial_speed * initial_speed) \div (2 * gravity)

Vx0(initial_speed, angle_deg) == (initial_speed * CosNum(angle_deg)) \div TrigDen
Vy0(initial_speed, angle_deg) == (initial_speed * SinNum(angle_deg)) \div TrigDen

solve_time_of_flight(initial_speed, launch_angle_deg, delta_y, gravity) ==
    LET vy0 == Vy0(initial_speed, launch_angle_deg)
        discriminant == vy0 * vy0 - 2 * gravity * delta_y
    IN  IF discriminant < 0 THEN None
        ELSE Some((vy0 + Sqrt(discriminant)) \div gravity)

\* vf_effective of main(): the final speed, or vi when none is entered
VfEffective(vi, vf) == IF IsNone(vf) THEN vi ELSE Val(vf)

\* the inputs on which the integer model is exact
ExactInputs(vi, vf, angle) ==
    IF IsNone(vi) THEN TRUE
    ELSE IF Val(vi) <= 0 THEN TRUE
    ELSE LET v == Val(vi)
             vfe == VfEffective(v, vf)
             vy0 == Vy0(v, angle)
             disc == vy0 * vy0 - (vfe * vfe - v * v)
         IN  /\ (v * CosNum(angle)) % TrigDen = 0
             /\ (v * SinNum(angle)) % TrigDen = 0
             /\ (vfe * vfe - v * v) % (2 * GRAVITY) = 0
             /\ IF disc < 0 THEN TRUE
                ELSE IsSquare(disc) /\ (vy0 + Sqrt(disc)) % GRAVITY = 0

\* ---- ProjectileSimulation --------------------------------------------
max_trail_length == MaxTrail

reset(s) ==
    [s EXCEPT !.is_running = FALSE,
              !.is_paused = FALSE,
              !.time = 0,
              !.position = <<0, 0>>,
              !.velocity = <<0, 0>>,
              !.initial_velocity = <<0, 0>>,
              !.angle_deg = 0,
              !.trail_points = <<>>,
              !.impact_time = None,
              !.range_m = 0]

\* the object after __init__
NewSimulation ==
    [is_running |-> FALSE, is_paused |-> FALSE, time |-> 0,
     position |-> <<0, 0>>, velocity |-> <<0, 0>>,
     initial_velocity |-> <<0, 0>>, angle_deg |-> 0,
     trail_points |-> <<>>, impact_time |-> None, range_m |-> 0]

\* launch that seeds the origin onto the old trail and keeps the pause flag
launch_keeps_run(s, initial_speed, angle_deg, delta_y) ==
    LET iv == <<Vx0(initial_speed, angle_deg), Vy0(initial_speed, angle_deg)>>
        vy0 == iv[2]
        discriminant == vy0 * vy0 - 2 * GRAVITY * delta_y
        impact == IF discriminant >= 0
                  THEN Some((vy0 + Sqrt(discriminant)) \div GRAVITY)
                  ELSE None
    IN  [s EXCEPT !.angle_deg = angle_deg,
                  !.initial_velocity = iv,
                  !.velocity = iv,
                  !.position = <<0, 0>>,
                  !.is_running = TRUE,
                  !.time = 0,
                  !.trail_points = IF Len(s.trail_points) < max_trail_length
                                   THEN Append(s.trail_points, <<0, 0>>)
                                   ELSE Append(Tail(s.trail_points), <<0, 0>>),
                  !.impact_time = impact,
                  !.range_m = IF discriminant >= 0 THEN iv[1] * Val(impact) ELSE 0]

launch(s, initial_speed, angle_deg, delta_y) ==
    LET r == reset(s)
        iv == <<Vx0(initial_speed, angle_deg), Vy0(initial_speed, angle_deg)>>
        vy0 == iv[2]
        discriminant == vy0 * vy0 - 2 * GRAVITY * delta_y
        impact == IF discriminant >= 0
                  THEN Some((vy0 + Sqrt(discriminant)) \div GRAVITY)
                  ELSE None
    IN  [r EXCEPT !.angle_deg = angle_deg,
                  !.initial_velocity = iv,
                  !.velocity = iv,
                  !.position = <<0, 0>>,
                  !.is_running = TRUE,
                  !.is_paused = FALSE,
                  !.time = 0,
                  !.trail_points = << <<0, 0>> >>,
                  !.impact_time = impact,
                  !.range_m = IF discriminant >= 0 THEN iv[1] * Val(impact) ELSE 0]

\* Python truthiness of self.impact_time: None and 0.0 are both false
Truthy(o) == ~IsNone(o) /\ Val(o) # 0

\* integrate with the newest point popped instead of the oldest
integrate_pop_newest(s, dt, speed_multiplier) ==
    LET dt2 == dt * speed_multiplier
        t == s.time + dt2
        iv == s.initial_velocity
        pos == <<iv[1] * t, iv[2] * t - (GRAVITY * t * t) \div 2>>
        vel == <<iv[1], iv[2] - GRAVITY * t>>
        appended == Append(s.trail_points, pos)
    IN  [s EXCEPT !.time = t, !.position = pos, !.velocity = vel,
                  !.trail_points = IF Len(appended) > max_trail_length
                                   THEN SubSeq(appended, 1, Len(appended) - 1)
                                   ELSE appended]

\* update(), lines 206-224: advance the time, recompute position and
\* velocity from it, append the position to the bounded trail
integrate(s, dt, speed_multiplier) ==
    LET dt2 == dt * speed_multiplier
        t == s.time + dt2
        iv == s.initial_velocity
        pos == <<iv[1] * t, iv[2] * t - (GRAVITY * t * t) \div 2>>
        vel == <<iv[1], iv[2] - GRAVITY * t>>
        appended == Append(s.trail_points, pos)
    IN  [s EXCEPT !.time = t, !.position = pos, !.velocity = vel,
                  !.trail_points = IF Len(appended) > max_trail_length
                                   THEN Tail(appended) ELSE appended]

\* check_impact without the snap of the elapsed time
check_impact_no_time_snap(s) ==
    IF Truthy(s.impact_time) /\ s.time >= Val(s.impact_time)
    THEN LET snapped == <<s.range_m, 0>>
             iv == s.initial_velocity
         IN  [s EXCEPT !.is_running = FALSE,
                       !.position = snapped,
                       !.velocity = <<iv[1], -Sqrt(iv[2] * iv[2] - 2 * GRAVITY * snapped[2])>>]
    ELSE s

\* check_impact with an absent impact_time read as 0
check_impact_none_as_zero(s) ==
    IF (IF IsNone(s.impact_time) THEN 0 ELSE Val(s.impact_time)) <= s.time
    THEN LET snapped == <<s.range_m, 0>>
             iv == s.initial_velocity
         IN  [s EXCEPT !.is_running = FALSE,
                       !.time = IF IsNone(s.impact_time) THEN 0 ELSE Val(s.impact_time),
                       !.position = snapped,
                       !.velocity = <<iv[1], -Sqrt(iv[2] * iv[2] - 2 * GRAVITY * snapped[2])>>]
    ELSE s

\* update(), lines 226-231: the impact check and the snap
check_impact(s) ==
    IF Truthy(s.impact_time) /\ s.time >= Val(s.impact_time)
    THEN LET snapped == <<s.range_m, 0>>
             iv == s.initial_velocity
         IN  [s EXCEPT !.is_running = FALSE,
                       !.time = Val(s.impact_time),
                       !.position = snapped,
                       !.velocity = <<iv[1], -Sqrt(iv[2] * iv[2] - 2 * GRAVITY * snapped[2])>>]
    ELSE s

\* update that does not look at is_paused
update_ignores_pause(s, dt, speed_multiplier) ==
    IF ~s.is_running THEN s
    ELSE check_impact(integrate(s, dt, speed_multiplier))

update(s, dt, speed_multiplier) ==
    IF ~s.is_running \/ s.is_paused THEN s
    ELSE check_impact(integrate(s, dt, speed_multiplier))

\* get_speed() squared: the square of the Euclidean norm of the velocity
get_speed_squared(s) == s.velocity[1] * s.velocity[1] + s.velocity[2] * s.velocity[2]

\* toggle_pause that does not look at is_running
toggle_pause_unguarded(s) == [s EXCEPT !.is_paused = ~s.is_paused]

toggle_pause(s) ==
    IF s.is_running THEN [s EXCEPT !.is_paused = ~s.is_paused] ELSE s

\* stop that leaves the pause flag as it is
stop_keeps_pause(s) == [s EXCEPT !.is_running = FALSE]

stop(s) == [s EXCEPT !.is_running = FALSE, !.is_paused = FALSE]

\* ---- viewport mapper --------------------------------------------------
\* World coordinates of the view are kept in units of 1/WorldDen, the common
\* denominator of the sample points t_end * (i / num_points).
WorldDen == NumPoints * NumPoints

\* the sample points, each coordinate multiplied by num_points^2
sample_trajectory(initial_speed, launch_angle_deg, gravity, t_end, num_points) ==
    LET vx0 == Vx0(initial_speed, launch_angle_deg)
        vy0 == Vy0(initial_speed, launch_angle_deg)
    IN  [k \in 1..(num_points + 1) |->
            LET i == k - 1
                tn == t_end * i   \* t * num_points
            IN  <<vx0 * tn * num_points,
                  vy0 * tn * num_points - (gravity * tn * tn) \div 2>>]

\* theoretical_trajectory of main(), recomputed every frame from the inputs
theoretical_trajectory(vi, vf, angle) ==
    IF IsNone(vi) THEN <<>>
    ELSE IF Val(vi) <= 0 THEN <<>>
    ELSE LET vf_effective == VfEffective(Val(vi), vf)
             delta_y == compute_delta_y_from_speeds(Val(vi), vf_effective, GRAVITY)
             t_flight == solve_time_of_flight(Val(vi), angle, delta_y, GRAVITY)
         IN  IF IsNone(t_flight) THEN <<>>
             ELSE IF Val(t_flight) <= 0 THEN <<>>
             ELSE sample_trajectory(Val(vi), angle, GRAVITY, Val(t_flight), NumPoints)

\* a simulated point in the units of the view
ToView(p) == <<p[1] * WorldDen, p[2] * WorldDen>>

\* all_points of main()
all_points(s, vi, vf, angle) ==
    LET theoretical == theoretical_trajectory(vi, vf, angle)
        trail == [k \in 1..Len(s.trail_points) |-> ToView(s.trail_points[k])]
        current == IF s.position # <<0, 0>> THEN <<ToView(s.position)>> ELSE <<>>
    IN  theoretical \o trail \o current

SeqMin(q) == CHOOSE m \in {q[k] : k \in 1..Len(q)} : \A k \in 1..Len(q) : m <= q[k]
SeqMax(q) == CHOOSE m \in {q[k] : k \in 1..Len(q)} : \A k \in 1..Len(q) : m >= q[k]

\* rationals n/d with d > 0
Frac(n, d) == [n |-> n, d |-> d]
\* p <= q, comparing the integer parts before the fractional parts
FracLeq(p, q) ==
    IF p.n \div p.d # q.n \div q.d THEN p.n \div p.d < q.n \div q.d
    ELSE (p.n % p.d) * q.d <= (q.n % q.d) * p.d
FracMin(p, q) == IF FracLeq(p, q) THEN p ELSE q
FracMax(p, q) == IF FracLeq(p, q) THEN q ELSE p

\* int(): truncation toward zero of n/d, d > 0
Trunc(n, d) == IF n >= 0 THEN n \div d ELSE -((-n) \div d)

\* max(1e-6, extent) for an extent given in units of 1/WorldDen
FloorEps(extent) == IF extent > 0 THEN Frac(extent, WorldDen) ELSE Frac(1, 1000000)

plot_rect == [x |-> 0, y |-> 0, width |-> WINDOW_WIDTH - panel_w, height |-> WINDOW_HEIGHT]
usable_w == plot_rect.width - (margin_left + margin_right)
usable_h == plot_rect.height - (margin_top + margin_bottom)

\* the auto-fit of main(): bounding box, scale and origin_px of one frame
compute_view(s, vi, vf, angle) ==
    LET pts == all_points(s, vi, vf, angle)
    IN  IF pts # <<>>
        THEN LET xs == [k \in 1..Len(pts) |-> pts[k][1]]
                 ys == [k \in 1..Len(pts) |-> pts[k][2]]
                 max_x == SeqMax(xs)
                 max_y == SeqMax(ys)
                 min_x == Min2(SeqMin(xs), 0)
                 min_y == Min2(SeqMin(ys), 0)
                 width_world == FloorEps(max_x - min_x)
                 height_world == FloorEps(max_y - min_y)
                 scale_x == Frac(usable_w * width_world.d, width_world.n)
                 scale_y == Frac(usable_h * height_world.d, height_world.n)
                 scale == FracMax(Frac(1, 1), FracMin(scale_x, scale_y))
             IN  [has_points |-> TRUE,
                  min_x |-> min_x, max_x |-> max_x, min_y |-> min_y, max_y |-> max_y,
                  scale |-> scale,
                  origin_px |-> <<plot_rect.x + margin_left - Trunc(min_x * scale.n, WorldDen * scale.d),
                                  plot_rect.y + margin_top + Trunc(max_y * scale.n, WorldDen * scale.d)>>]
        ELSE [has_points |-> FALSE,
              min_x |-> 0, max_x |-> 0, min_y |-> 0, max_y |-> 0,
              scale |-> Frac(6, 1),
              origin_px |-> <<plot_rect.x + margin_left,
                              plot_rect.y + plot_rect.height - margin_bottom>>]

\* world_to_screen for a world point given in units of 1/WorldDen
world_to_screen(origin_px, scale, x_world, y_world) ==
    <<Trunc(origin_px[1] * WorldDen * scale.d + x_world * scale.n, WorldDen * scale.d),
      Trunc(origin_px[2] * WorldDen * scale.d - y_world * scale.n, WorldDen * scale.d)>>

\* ---- state -----------------------------------------------------------
VARIABLES
    sim,          \* the ProjectileSimulation object of main()
    input_vi,     \* input_vi.get_value()
    input_vf,     \* input_vf.get_value()
    angle_deg,    \* the launch angle of main()
    pc,           \* position in the loop of main(): "events" while the
                  \* events of an iteration are consumed, "drawn" once the
                  \* iteration has updated the simulation and drawn the frame
    launched,     \* vi, vf_effective and delta_y of the last launch
    last          \* the last call made on sim, with what it was made on

vars == <<sim, input_vi, input_vf, angle_deg, pc, launched, last>>

NoLaunch == [vi |-> 0, vf_effective |-> 0, delta_y |-> 0, angle_deg |-> 0]

\* what the last call was made on: the flags, the elapsed time and the
\* length of the trail before the call
Pre(s) == [is_running |-> s.is_running, is_paused |-> s.is_paused,
           time |-> s.time, trail_len |-> Len(s.trail_points)]

Call(op, dt) == [op |-> op, dt |-> dt, pre |-> Pre(sim)]

\* main() before its loop: a new simulation, an initial speed entered, no
\* final speed, and an angle of the table (45 degrees and "30" in the source)
Init ==
    /\ sim = NewSimulation
    /\ input_vi = Some(10)
    /\ input_vf = None
    /\ angle_deg = 53
    /\ pc = "events"
    /\ launched = NoLaunch
    /\ last = [op |-> "init", dt |-> 0, pre |-> Pre(NewSimulation)]

\* the view the frame shows: what the iteration that reached pc = "drawn"
\* computed from the simulation and the inputs it left behind
View == compute_view(sim, input_vi, input_vf, angle_deg)

\* ---- events of main() ------------------------------------------------
SetVi(v) ==
    /\ v # input_vi
    /\ ExactInputs(v, input_vf, angle_deg)
    /\ input_vi' = v
    /\ pc' = "events"
    /\ UNCHANGED <<sim, input_vf, angle_deg, launched, last>>

SetVf(v) ==
    /\ v # input_vf
    /\ ExactInputs(input_vi, v, angle_deg)
    /\ input_vf' = v
    /\ pc' = "events"
    /\ UNCHANGED <<sim, input_vi, angle_deg, launched, last>>

SetAngle(a) ==
    /\ a # angle_deg
    /\ ExactInputs(input_vi, input_vf, a)
    /\ angle_deg' = a
    /\ pc' = "events"
    /\ UNCHANGED <<sim, input_vi, input_vf, launched, last>>

KeySpace ==
    /\ ~IsNone(input_vi) /\ Val(input_vi) > 0
    /\ LET vi == Val(input_vi)
           vf_effective == VfEffective(vi, input_vf)
           delta_y == compute_delta_y_from_speeds(vi, vf_effective, GRAVITY)
       IN  /\ sim' = launch(sim, vi, angle_deg, delta_y)
           /\ launched' = [vi |-> vi, vf_effective |-> vf_effective,
                           delta_y |-> delta_y, angle_deg |-> angle_deg]
    /\ last' = Call("launch", 0)
    /\ pc' = "events"
    /\ UNCHANGED <<input_vi, input_vf, angle_deg>>

KeyP ==
    /\ sim' = toggle_pause(sim)
    /\ last' = Call("toggle_pause", 0)
    /\ pc' = "events"
    /\ UNCHANGED <<input_vi, input_vf, angle_deg, launched>>

KeyR ==
    /\ sim' = stop(sim)
    /\ last' = Call("stop", 0)
    /\ pc' = "events"
    /\ UNCHANGED <<input_vi, input_vf, angle_deg, launched>>

Frame(dt, speed_multiplier) ==
    /\ (sim.is_running /\ ~sim.is_paused) => sim.time + dt * speed_multiplier <= MaxTime
    /\ sim' = update(sim, dt, speed_multiplier)
    /\ pc' = "drawn"
    /\ last' = Call("update", dt * speed_multiplier)
    /\ UNCHANGED <<input_vi, input_vf, angle_deg, launched>>

Next ==
    \/ \E v \in ViValues : SetVi(v)
    \/ \E v \in VfValues : SetVf(v)
    \/ \E a \in Angles : SetAngle(a)
    \/ KeySpace
    \/ KeyP
    \/ KeyR
    \/ \E dt \in FrameDts, m \in SpeedMultipliers : Frame(dt, m)

Spec == Init /\ [][Next]_vars

TypeOK ==
    /\ sim.is_running \in BOOLEAN
    /\ sim.is_paused \in BOOLEAN
    /\ sim.time \in 0..MaxTime
    /\ pc \in {"events", "drawn"}
    /\ last.op \in {"init", "launch", "update", "toggle_pause", "stop"}

\* ---- properties ------------------------------------------------------
\* a call of update() that takes effect: RUNNING and not PAUSED
Effective(s) == s.is_running /\ ~s.is_paused
\* the last call was an update() that took effect
LastEffectiveUpdate ==
    last.op = "update" /\ last.pre.is_running /\ ~last.pre.is_paused
\* the simulation has stopped at its impact: only the snap sets the time
\* to a positive impact_time
StoppedAtImpact ==
    /\ ~sim.is_running
    /\ ~IsNone(sim.impact_time)
    /\ Val(sim.impact_time) > 0
    /\ sim.time = Val(sim.impact_time)

\* C1: after a launch with a defined positive impact_time, the first
\* update that brings the elapsed time to or past impact_time, whatever
\* the size of its step, leaves the simulation STOPPED with
\* time = impact_time and position = (range_m, 0); an update that stays
\* short of impact_time leaves it RUNNING; and an update of a stopped
\* simulation changes neither time nor position.
C1_ImpactSnap ==
    [][\A dt \in FrameDts, m \in SpeedMultipliers :
        Frame(dt, m) =>
          /\ (Effective(sim) /\ ~IsNone(sim.impact_time) /\ Val(sim.impact_time) > 0) =>
                IF sim.time + dt * m >= Val(sim.impact_time)
                THEN /\ ~sim'.is_running
                     /\ sim'.time = Val(sim.impact_time)
                     /\ sim'.position = <<sim.range_m, 0>>
                ELSE /\ sim'.is_running
                     /\ sim'.time = sim.time + dt * m
          /\ ~sim.is_running =>
                sim'.time = sim.time /\ sim'.position = sim.position]_vars

\* a step larger than what was left to the impact has been snapped back
C1_Witness ==
    /\ LastEffectiveUpdate
    /\ StoppedAtImpact
    /\ last.pre.time + last.dt > Val(sim.impact_time)
    /\ last.pre.time < Val(sim.impact_time)
    /\ sim.position = <<sim.range_m, 0>>
    /\ sim.range_m > 0

\* C2: the trail never holds more than max_trail_length points, and an
\* update that takes effect appends the new point at the end: below the
\* capacity the old points all stay, in order; at the capacity the oldest
\* point (the first) is dropped and the others stay, in order.
C2_TrailFifo ==
    /\ [](Len(sim.trail_points) <= max_trail_length)
    /\ [][\A dt \in FrameDts, m \in SpeedMultipliers :
            (Frame(dt, m) /\ Effective(sim)) =>
              LET old == sim.trail_points
                  new == sim'.trail_points
                  kept == IF Len(old) < max_trail_length THEN old ELSE Tail(old)
              IN  /\ Len(new) = Len(kept) + 1
                  /\ SubSeq(new, 1, Len(kept)) = kept
                  /\ new[Len(new)] = integrate(sim, dt, m).position]_vars

\* an update appended to a full trail, and the seed point is gone
C2_Witness ==
    /\ LastEffectiveUpdate
    /\ last.pre.trail_len = max_trail_length
    /\ Len(sim.trail_points) = max_trail_length
    /\ \A k \in 1..Len(sim.trail_points) : sim.trail_points[k] # <<0, 0>>

\* C3: toggle_pause() on a stopped simulation changes no field; on a
\* running one it flips is_paused and changes no other field.
C3_TogglePause ==
    [][KeyP =>
        IF sim.is_running
        THEN sim' = [sim EXCEPT !.is_paused = ~sim.is_paused]
        ELSE sim' = sim /\ ~sim'.is_running /\ ~sim'.is_paused]_vars

\* toggle_pause() was called on a simulation that had stopped after a run
C3_Witness ==
    /\ last.op = "toggle_pause"
    /\ ~last.pre.is_running
    /\ last.pre.time > 0
    /\ ~sim.is_running /\ ~sim.is_paused

\* C4: update() on a STOPPED or PAUSED simulation changes no field, for
\* every dt and multiplier.
C4_UpdateNoOp ==
    [][\A dt \in FrameDts, m \in SpeedMultipliers :
        (Frame(dt, m) /\ ~Effective(sim)) => sim' = sim]_vars

\* update() was called on a simulation paused in mid-flight
C4_Witness ==
    /\ last.op = "update"
    /\ last.pre.is_running /\ last.pre.is_paused
    /\ last.pre.time > 0
    /\ sim.is_paused /\ sim.time = last.pre.time
    /\ Len(sim.trail_points) = last.pre.trail_len

\* C5: a launch with a negative discriminant leaves impact_time absent
\* and range 0; while impact_time is absent no update stops the
\* simulation or touches the pause flag, and every update that takes
\* effect advances the elapsed time by dt * speed_multiplier.
C5_NoSolutionRunsOn ==
    [][/\ (KeySpace /\ sim'.initial_velocity[2] * sim'.initial_velocity[2]
                          < 2 * GRAVITY * launched'.delta_y) =>
              IsNone(sim'.impact_time) /\ sim'.range_m = 0 /\ sim'.is_running
       /\ \A dt \in FrameDts, m \in SpeedMultipliers :
            (Frame(dt, m) /\ IsNone(sim.impact_time) /\ sim.is_running) =>
              /\ sim'.is_running
              /\ sim'.is_paused = sim.is_paused
              /\ IsNone(sim'.impact_time)
              /\ ~sim.is_paused => sim'.time = sim.time + dt * m]_vars

\* a launch without solution is still running after the projectile has
\* fallen below its launch height
C5_Witness ==
    /\ LastEffectiveUpdate
    /\ launched.vi > 0
    /\ sim.initial_velocity[2] * sim.initial_velocity[2] < 2 * GRAVITY * launched.delta_y
    /\ IsNone(sim.impact_time)
    /\ sim.is_running
    /\ sim.position[2] < 0
    /\ sim.time = last.pre.time + last.dt

\* C6: once the simulation has stopped at its impact, the speed of
\* get_speed() is the final speed the launch was made for:
\* vx^2 + vy^2 = vf_effective^2.
C6_ImpactSpeedIsFinalSpeed ==
    StoppedAtImpact => get_speed_squared(sim) = launched.vf_effective * launched.vf_effective

\* C7: in every frame drawn with a non-empty set of points the bounding
\* box contains 0 on both axes, and the world origin is drawn at or right
\* of the left margin and at or below the top margin of the plot.
C7_OriginFramed ==
    (pc = "drawn" /\ View.has_points) =>
        /\ View.min_x <= 0 /\ 0 <= View.max_x
        /\ View.min_y <= 0 /\ 0 <= View.max_y
        /\ world_to_screen(View.origin_px, View.scale, 0, 0)[1] >= plot_rect.x + margin_left
        /\ world_to_screen(View.origin_px, View.scale, 0, 0)[2] >= plot_rect.y + margin_top

\* C8: whenever impact_time is defined, whatever its value, an update
\* that takes effect and leaves the elapsed time at or past impact_time
\* snaps time and position and stops the simulation.
C8_ImpactFiresWhenDefined ==
    [][\A dt \in FrameDts, m \in SpeedMultipliers :
        (/\ Frame(dt, m)
         /\ Effective(sim)
         /\ ~IsNone(sim.impact_time)
         /\ sim.time + dt * m >= Val(sim.impact_time)) =>
            /\ ~sim'.is_running
            /\ sim'.time = Val(sim.impact_time)
            /\ sim'.position = <<sim.range_m, 0>>]_vars

\* C9: at the impact snap the horizontal velocity is vx0 and the vertical
\* velocity is downward with vy^2 = vy0^2 - 2*g*delta_y, delta_y being the
\* displacement the launch was made with.
C9_ImpactVelocity ==
    StoppedAtImpact =>
        /\ sim.velocity[1] = sim.initial_velocity[1]
        /\ sim.velocity[2] <= 0
        /\ sim.velocity[2] * sim.velocity[2] =
             sim.initial_velocity[2] * sim.initial_velocity[2]
               - 2 * GRAVITY * launched.delta_y

\* C10: launch() gives the same state whatever the state before it:
\* RUNNING, not paused, time 0, position (0,0), velocity equal to
\* initial_velocity, the trail exactly the origin point, and
\* impact_time and range those of a launch of a new object.
C10_LaunchFresh ==
    [][KeySpace =>
        /\ sim'.is_running /\ ~sim'.is_paused
        /\ sim'.time = 0
        /\ sim'.position = <<0, 0>>
        /\ sim'.velocity = sim'.initial_velocity
        /\ sim'.initial_velocity = <<Vx0(launched'.vi, launched'.angle_deg),
                                     Vy0(launched'.vi, launched'.angle_deg)>>
        /\ sim'.trail_points = << <<0, 0>> >>
        /\ sim' = launch(NewSimulation, launched'.vi, launched'.angle_deg,
                         launched'.delta_y)]_vars

\* a launch made on a paused run that had a longer trail
C10_Witness ==
    /\ last.op = "launch"
    /\ last.pre.is_running /\ last.pre.is_paused
    /\ last.pre.time > 0
    /\ last.pre.trail_len > 1
    /\ sim.is_running /\ ~sim.is_paused
    /\ sim.trail_points = << <<0, 0>> >>

\* C11: in every reachable state is_paused implies is_running: the
\* simulation is never left stopped with the pause flag still set.
C11_PausedImpliesRunning == sim.is_paused => sim.is_running

\* stop() was called on a paused run and has cleared both flags
C11_Witness ==
    /\ last.op = "stop"
    /\ last.pre.is_running /\ last.pre.is_paused
    /\ last.pre.time > 0
    /\ ~sim.is_running /\ ~sim.is_paused
====
